---- MODULE Spec2Model ----
(***************************************************************************)
(* Model of the timetable generator of src/src/pages/Timetable.tsx         *)
(* (generateTimetableMutation, first variant, lines 29-856) together with  *)
(* the `timetable` table of supabase/migrations/database_schema.sql.       *)
(*                                                                         *)
(* A client is one mounted Timetable page (one useMutation instance).  The *)
(* database is shared by all clients.  Every `await` of mutationFn is one  *)
(* action; the synchronous scheduling code between the last read and the   *)
(* insert is split into one action per loop iteration.                     *)
(***************************************************************************)
EXTENDS Integers, Sequences, FiniteSets, TLC

VARIABLES
  catalog,     \* tables sections, subjects, faculty_subjects, classrooms
  timetable,   \* table timetable: a set of rows, each with its own id
  nextId,      \* next row id the database hands out
  active,      \* the clients that exist in this behaviour
  pc,          \* pc[c]: where client c's mutationFn stands
  error,       \* error[c]: the error mutationFn threw ("" when none)
  run,         \* run[c]: the local variables of client c's mutationFn
  startRows,   \* history: rows of the target section when the run started
  overlapped   \* history: some run started while another was in flight

vars == <<catalog, timetable, nextId, active, pc, error, run, startRows, overlapped>>

----------------------------------------------------------------------------
(* Bounds of the model *)

\* weekly_hours of the parameterised subject ranges over 1..MaxWeeklyHours
MaxWeeklyHours == 6
\* number of outcomes of getRandomStartTimes that are explored
NumStartShuffles == 2

Clients == {1, 2}

----------------------------------------------------------------------------
(* Module constants, Timetable.tsx lines 13-19 and 111-112 *)

timeSlots == <<"08:00", "09:00", "10:00", "11:00", "12:00",
               "13:00", "14:00", "15:00", "16:00", "17:00">>

daysOfWeek == <<"Monday", "Tuesday", "Wednesday", "Thursday", "Friday">>

BREAK_START == 4

numberOfBatches == 3

\* JavaScript null, for a slot index and for batch_number
null == -1

Days == {daysOfWeek[i] : i \in 1..Len(daysOfWeek)}
SlotIndices == 0..(Len(timeSlots) - 1)

----------------------------------------------------------------------------
(* Sequence helpers *)

Range(s) == {s[i] : i \in 1..Len(s)}

Min(S) == CHOOSE x \in S : \A y \in S : x <= y

\* Array.prototype.filter
RECURSIVE Filter(_, _)
Filter(s, keep) ==
  IF s = <<>> THEN <<>>
  ELSE IF Head(s) \in keep THEN <<Head(s)>> \o Filter(Tail(s), keep)
       ELSE Filter(Tail(s), keep)

\* A splice that removes nothing
SpliceNothing(s, index) == s

\* A splice that removes the first element whatever the index
SpliceFirst(s, index) == Tail(s)

\* Array.prototype.splice(index, 1) with a 0-based index
Splice(s, index) ==
  [j \in 1..(Len(s) - 1) |-> IF j <= index THEN s[j] ELSE s[j + 1]]

Reverse(s) == [j \in 1..Len(s) |-> s[Len(s) + 1 - j]]

Rotate(s, k) == [j \in 1..Len(s) |-> s[((j - 1 + k) % Len(s)) + 1]]

----------------------------------------------------------------------------
(* Time values.  The client writes "HH:MM"; the TIME columns of the table  *)
(* give back "HH:MM:SS" and the client cuts that with substring(0, 5).      *)

pgTime(t) == t \o ":00"

substring5(t) == SubSeq(t, 1, 5)

\* timeSlots.indexOf(time): 0-based, -1 when the time is no slot start
getTimeIndex(time) ==
  IF \E i \in 1..Len(timeSlots) : timeSlots[i] = time
  THEN (CHOOSE i \in 1..Len(timeSlots) : timeSlots[i] = time) - 1
  ELSE -1

\* timeSlots[i] || '18:00'
slotTimeOr18(i) == IF i \in SlotIndices THEN timeSlots[i + 1] ELSE "18:00"

----------------------------------------------------------------------------
(* The catalogs and stored timetables the behaviours start from *)

Subject(id, yl, wh, lab, tut) ==
  [id |-> id, year_level |-> yl, weekly_hours |-> wh, has_lab |-> lab, has_tutorial |-> tut]

Capability(f, s, types) == [faculty_id |-> f, subject_id |-> s, subject_types |-> types]

Classroom(id, type) == [id |-> id, room_type |-> type]

Row(id, sec, subj, fac, room, day, start, end, type, batch) ==
  [id |-> id, section_id |-> sec, subject_id |-> subj, faculty_id |-> fac,
   classroom_id |-> room, day_of_week |-> day, start_time |-> start,
   end_time |-> end, subject_type |-> type, batch_number |-> batch]

Sections == [S1 |-> [name |-> "FY-A", year_level |-> "FY"],
             S2 |-> [name |-> "SY-A", year_level |-> "SY"]]

AllTypes == {"lecture", "lab", "tutorial"}

\* Scenario A family: one SY subject with h weekly hours, one lecturer, nL lecture rooms
CatalogLectures(h, nL) ==
  [sections |-> Sections,
   subjects |-> <<Subject("A", "FY", 1, FALSE, FALSE), Subject("X", "SY", h, FALSE, FALSE)>>,
   faculty_subjects |-> <<Capability("F1", "A", {"lecture"}), Capability("F1", "X", {"lecture"})>>,
   classrooms |-> IF nL = 1 THEN <<Classroom("L1", "lecture")>>
                  ELSE <<Classroom("L1", "lecture"), Classroom("L2", "lecture")>>]

\* One SY subject with lecture, lab and tutorial, one teacher, one room of each type
CatalogPractical ==
  [sections |-> Sections,
   subjects |-> <<Subject("A", "FY", 1, FALSE, FALSE), Subject("X", "SY", 1, TRUE, TRUE)>>,
   faculty_subjects |-> <<Capability("F1", "A", {"lecture"}), Capability("F1", "X", AllTypes)>>,
   classrooms |-> <<Classroom("L1", "lecture"), Classroom("B1", "lab"), Classroom("T1", "tutorial")>>]

\* Two SY subjects, two teachers qualified for everything, two rooms of each type
CatalogShared ==
  [sections |-> Sections,
   subjects |-> <<Subject("A", "FY", 1, FALSE, FALSE), Subject("X", "SY", 1, TRUE, FALSE),
                  Subject("Y", "SY", 1, FALSE, FALSE)>>,
   faculty_subjects |-> <<Capability("F1", "A", {"lecture"}),
                          Capability("F1", "X", AllTypes), Capability("F2", "X", AllTypes),
                          Capability("F1", "Y", AllTypes), Capability("F2", "Y", AllTypes)>>,
   classrooms |-> <<Classroom("L1", "lecture"), Classroom("L2", "lecture"),
                    Classroom("B1", "lab"), Classroom("B2", "lab"),
                    Classroom("T1", "tutorial"), Classroom("T2", "tutorial")>>]

\* Missing teachers and rooms: X has a lab teacher only, Y a tutorial teacher
\* but there is no tutorial room
CatalogGaps ==
  [sections |-> Sections,
   subjects |-> <<Subject("A", "FY", 1, FALSE, FALSE), Subject("X", "SY", 1, TRUE, TRUE),
                  Subject("Y", "SY", 1, FALSE, TRUE)>>,
   faculty_subjects |-> <<Capability("F1", "A", {"lecture"}), Capability("F2", "X", {"lab"}),
                          Capability("F1", "Y", {"tutorial"})>>,
   classrooms |-> <<Classroom("L1", "lecture"), Classroom("B1", "lab")>>]

\* Nothing can be scheduled: A has no teacher at all, X has a teacher for
\* every session type and there is no classroom
CatalogBare ==
  [sections |-> Sections,
   subjects |-> <<Subject("A", "FY", 1, TRUE, TRUE), Subject("X", "SY", 1, TRUE, TRUE)>>,
   faculty_subjects |-> <<Capability("F1", "X", AllTypes)>>,
   classrooms |-> <<>>]

\* Two SY subjects of 2 and 5 weekly hours with the same single lecturer
CatalogCrowded ==
  [sections |-> Sections,
   subjects |-> <<Subject("A", "FY", 1, FALSE, FALSE), Subject("X", "SY", 2, FALSE, FALSE),
                  Subject("Y", "SY", 5, FALSE, FALSE)>>,
   faculty_subjects |-> <<Capability("F1", "A", {"lecture"}), Capability("F1", "X", {"lecture"}),
                          Capability("F1", "Y", {"lecture"})>>,
   classrooms |-> <<Classroom("L1", "lecture"), Classroom("L2", "lecture")>>]

LectureCatalogs == {CatalogLectures(h, nL) : h \in 1..MaxWeeklyHours, nL \in {1, 2}}

PracticalCatalogs == {CatalogPractical, CatalogShared, CatalogGaps, CatalogBare}

Faculty == {"F1", "F2"}

\* Stored timetables a behaviour may start from; each is free of conflicts and
\* made of rows the generator itself writes
StoredEmpty == {}

StoredLate ==
  {Row(1, "S1", "A", "F1", "L1", "Monday", "17:00:00", "18:00:00", "lecture", null),
   Row(2, "S2", "X", "F1", "L1", "Tuesday", "08:00:00", "09:00:00", "lecture", null)}

StoredEarly ==
  {Row(1, "S1", "A", "F1", "L1", "Monday", "08:00:00", "09:00:00", "lecture", null)}

StoredTimetables == {StoredEmpty, StoredLate, StoredEarly}

\* Scenario C: section S1 has F1 in L1 in every slot of every weekday but the
\* break, the rows of runs for S1 when its year had subjects enough for that
StoredFull ==
  {Row((Len(timeSlots) - 1) * (d - 1) + (IF i < BREAK_START THEN i + 1 ELSE i), "S1", "A", "F1", "L1", daysOfWeek[d],
       pgTime(timeSlots[i + 1]), pgTime(slotTimeOr18(i + 1)), "lecture", null) :
     d \in 1..Len(daysOfWeek), i \in SlotIndices \ {BREAK_START}}

\* Behaviours with one client explore every catalog, the lecture catalogs with
\* every stored timetable; behaviours with two clients explore the smallest
\* catalog
Scenarios ==
  {[catalog |-> k, timetable |-> t, active |-> {1}] :
     k \in LectureCatalogs, t \in StoredTimetables}
    \cup {[catalog |-> k, timetable |-> StoredEmpty, active |-> {1}] : k \in PracticalCatalogs}
    \cup {[catalog |-> CatalogLectures(1, 1), timetable |-> StoredEmpty, active |-> Clients]}
    \cup {[catalog |-> CatalogLectures(1, 2), timetable |-> StoredFull, active |-> {1}]}
    \cup {[catalog |-> CatalogCrowded, timetable |-> StoredFull, active |-> {1}]}

----------------------------------------------------------------------------
(* Local state of mutationFn *)

\* The grids schedule, facultySchedule and classroomSchedule are kept as the
\* sets of their marks: <<day, i>> when schedule[day][i] holds an entry,
\* <<day, i, id>> when the Set at [day][i] has id
NoRun ==
  [sectionId |-> "", section |-> "", subjects |-> <<>>, facultySubjects |-> <<>>,
   existingTimetable |-> {}, lectureClassrooms |-> <<>>, labClassrooms |-> <<>>,
   tutorialClassrooms |-> <<>>,
   schedule |-> {}, facultySchedule |-> {}, classroomSchedule |-> {},
   timetableEntries |-> <<>>, shuffledDays |-> <<>>,
   dailySubjectLectures |-> [d \in Days |-> {}],
   lectureRoomIndex |-> 0, labRoomIndex |-> 0, tutorialRoomIndex |-> 0,
   facultyUsageCount |-> [f \in Faculty |-> 0],
   subjectIndex |-> 0, faculty |-> "", hoursScheduled |-> 0, availableDays |-> <<>>,
   shuffledBatches |-> <<>>, batchIndex |-> 0, dayIndex |-> 0]

Init ==
  \E sc \in Scenarios :
    /\ catalog = sc.catalog
    /\ timetable = sc.timetable
    /\ nextId = Cardinality(sc.timetable) + 1
    /\ active = sc.active
    /\ pc = [c \in Clients |-> "idle"]
    /\ error = [c \in Clients |-> ""]
    /\ run = [c \in Clients |-> NoRun]
    /\ startRows = [c \in Clients |-> {}]
    /\ overlapped = FALSE

----------------------------------------------------------------------------
(* Scheduling helpers, Timetable.tsx lines 115-156 and 208-268.  They are   *)
(* closures over schedule, facultySchedule and classroomSchedule; here the  *)
(* run record r carries those.                                              *)

\* isSlotAvailable without its last line, the test that the session ends
\* inside the day
isSlotAvailableNoEnd(r, day, timeIndex, duration) ==
  ~ \E i \in timeIndex..(timeIndex + duration - 1) :
      i < Len(timeSlots) /\ <<day, i>> \in r.schedule

isSlotAvailable(r, day, timeIndex, duration) ==
  LET endIndex == timeIndex + duration
  IN IF \E i \in timeIndex..(endIndex - 1) : i < Len(timeSlots) /\ <<day, i>> \in r.schedule
     THEN FALSE
     ELSE endIndex <= Len(timeSlots)

isFacultyAvailable(r, facultyId, day, timeIndex, duration) ==
  LET endIndex == timeIndex + duration
  IN ~ \E i \in timeIndex..(endIndex - 1) :
         i < Len(timeSlots) /\ <<day, i, facultyId>> \in r.facultySchedule

isClassroomAvailable(r, classroomId, day, timeIndex, duration) ==
  LET endIndex == timeIndex + duration
  IN ~ \E i \in timeIndex..(endIndex - 1) :
         i < Len(timeSlots) /\ <<day, i, classroomId>> \in r.classroomSchedule

\* markSlotOccupied without its line for schedule, the section's own grid
markSlotOccupiedNotSection(r, day, timeIndex, duration, facultyId, classroomId) ==
  LET endIndex == timeIndex + duration
      slots == {i \in timeIndex..(endIndex - 1) : i < Len(timeSlots)}
  IN [r EXCEPT
        !.facultySchedule = @ \cup {<<day, i, facultyId>> : i \in slots},
        !.classroomSchedule = @ \cup {<<day, i, classroomId>> : i \in slots}]

\* The three grids after markSlotOccupied; of schedule the code only ever
\* reads whether a slot holds an entry
markSlotOccupied(r, day, timeIndex, duration, facultyId, classroomId) ==
  LET endIndex == timeIndex + duration
      slots == {i \in timeIndex..(endIndex - 1) : i < Len(timeSlots)}
  IN [r EXCEPT
        !.schedule = @ \cup {<<day, i>> : i \in slots},
        !.facultySchedule = @ \cup {<<day, i, facultyId>> : i \in slots},
        !.classroomSchedule = @ \cup {<<day, i, classroomId>> : i \in slots}]

\* startTimes without the last slot of the day
startTimesNoLast == <<0, 1, 2, 3, 5, 6, 7, 8>>

startTimes == <<0, 1, 2, 3, 5, 6, 7, 8, 9>>

\* The k-th explored outcome of startTimes.sort(() => Math.random() - 0.5):
\* latest first, then earliest first, then rotations of the list
StartShuffle(k) ==
  IF k = 0 THEN Reverse(startTimes) ELSE Rotate(startTimes, ((k - 1) * 4) % Len(startTimes))

getRandomStartTimes == {StartShuffle(k) : k \in 0..(NumStartShuffles - 1)}

\* isBreakTime that knows no break
isBreakTimeNever(timeIndex) == FALSE

isBreakTime(timeIndex) == timeIndex = BREAK_START

spansBreak(startIndex, duration) ==
  \E i \in startIndex..(startIndex + duration - 1) : isBreakTime(i)

\* The test both loops of findBestTimeSlot apply to a start index
slotFits(r, day, duration, facultyId, classroomId, startIndex) ==
  /\ ~ isBreakTime(startIndex)
  /\ ~ spansBreak(startIndex, duration)
  /\ isSlotAvailable(r, day, startIndex, duration)
  /\ isFacultyAvailable(r, facultyId, day, startIndex, duration)
  /\ isClassroomAvailable(r, classroomId, day, startIndex, duration)

\* timesToTry is the outcome of getRandomStartTimes for this call
findBestTimeSlot(r, day, duration, facultyId, classroomId, timesToTry) ==
  LET first == {j \in 1..Len(timesToTry) :
                  slotFits(r, day, duration, facultyId, classroomId, timesToTry[j])}
      second == {i \in 0..(Len(timeSlots) - duration - 1) :
                  slotFits(r, day, duration, facultyId, classroomId, i)}
  IN IF first # {} THEN timesToTry[Min(first)]
     ELSE IF second # {} THEN Min(second)
     ELSE null

\* A room loop that starts at the first room whatever the cursor
findRoomFromFirst(r, rooms, roomIndex, day, duration, facultyId, times) ==
  LET slot(i) == findBestTimeSlot(r, day, duration, facultyId, rooms[i + 1].id, times[i])
      found == {i \in 0..(Len(rooms) - 1) : slot(i) # null}
  IN IF found = {} THEN [room |-> null, slot |-> null]
     ELSE [room |-> Min(found), slot |-> slot(Min(found))]

\* The room loop of lines 326-337 (413-424, 482-493): rooms are tried from
\* roomIndex on, cyclically; times[i] is the start-time order drawn for the
\* i-th room tried.  Gives the position of the room found and its slot.
findRoom(r, rooms, roomIndex, day, duration, facultyId, times) ==
  LET try(i) == (roomIndex + i) % Len(rooms)
      slot(i) == findBestTimeSlot(r, day, duration, facultyId, rooms[try(i) + 1].id, times[i])
      found == {i \in 0..(Len(rooms) - 1) : slot(i) # null}
  IN IF found = {} THEN [room |-> null, slot |-> null]
     ELSE [room |-> try(Min(found)), slot |-> slot(Min(found))]

\* The filter of lines 290-292 without its subject_types test
qualifiedFacultyAnyType(r, subjectId, type) ==
  Filter(r.facultySubjects, {fs \in Range(r.facultySubjects) : fs.subject_id = subjectId})

\* qualified rows of facultySubjects for a subject and session type
qualifiedFaculty(r, subjectId, type) ==
  LET keep == {fs \in Range(r.facultySubjects) :
                 fs.subject_id = subjectId /\ type \in fs.subject_types}
  IN Filter(r.facultySubjects, keep)

\* qualified.reduce((leastUsed, current) => ...): the first row of least count
RECURSIVE leastUsedFrom(_, _, _)
leastUsedFrom(leastUsed, rest, usage) ==
  IF rest = <<>> THEN leastUsed
  ELSE LET current == Head(rest)
       IN leastUsedFrom(IF usage[current.faculty_id] < usage[leastUsed.faculty_id]
                        THEN current ELSE leastUsed,
                        Tail(rest), usage)

\* A selection that takes the first qualified row whatever the counts
firstQualified(qualified, usage) == Head(qualified)

leastUsed(qualified, usage) == leastUsedFrom(Head(qualified), Tail(qualified), usage)

\* A lecture entry that leaves batch_number to the column default, 1
lectureEntryDefaultBatch(sectionId, subjectId, facultyId, classroomId, day, timeIndex) ==
  [section_id |-> sectionId, subject_id |-> subjectId, faculty_id |-> facultyId,
   classroom_id |-> classroomId, day_of_week |-> day,
   start_time |-> timeSlots[timeIndex + 1], end_time |-> slotTimeOr18(timeIndex + 1),
   subject_type |-> "lecture", batch_number |-> 1]

\* The entry objects of lines 348-358, 431-441 and 500-510
lectureEntry(sectionId, subjectId, facultyId, classroomId, day, timeIndex) ==
  [section_id |-> sectionId, subject_id |-> subjectId, faculty_id |-> facultyId,
   classroom_id |-> classroomId, day_of_week |-> day,
   start_time |-> timeSlots[timeIndex + 1], end_time |-> slotTimeOr18(timeIndex + 1),
   subject_type |-> "lecture", batch_number |-> null]

labEntry(sectionId, subjectId, facultyId, classroomId, day, timeIndex, batchNumber) ==
  [section_id |-> sectionId, subject_id |-> subjectId, faculty_id |-> facultyId,
   classroom_id |-> classroomId, day_of_week |-> day,
   start_time |-> timeSlots[timeIndex + 1], end_time |-> slotTimeOr18(timeIndex + 2),
   subject_type |-> "lab", batch_number |-> batchNumber]

tutorialEntry(sectionId, subjectId, facultyId, classroomId, day, timeIndex, batchNumber) ==
  [section_id |-> sectionId, subject_id |-> subjectId, faculty_id |-> facultyId,
   classroom_id |-> classroomId, day_of_week |-> day,
   start_time |-> timeSlots[timeIndex + 1], end_time |-> slotTimeOr18(timeIndex + 1),
   subject_type |-> "tutorial", batch_number |-> batchNumber]

\* The outcomes of [...daysOfWeek].sort(() => Math.random() - 0.5) explored
DayShuffles == {daysOfWeek, Rotate(daysOfWeek, 2)}

\* batches (lines 379-383) by number, and the explored outcomes of
\* [...batches].sort(() => Math.random() - 0.5)
batches == [i \in 1..numberOfBatches |-> i]

BatchShuffles == {batches, Reverse(batches)}

----------------------------------------------------------------------------
(* mutationFn, lines 35-108: the delete and the reads *)

\* generateTimetableMutation.isPending
isPending(c) == pc[c] \notin {"idle", "success", "error"}

\* What is left of the locals once mutationFn is over: the target section and
\* the value it returned
finished(r, data) == [NoRun EXCEPT !.sectionId = r.sectionId, !.timetableEntries = data]

\* throw inside mutationFn: onError runs, the mutation is no longer pending
Throw(c, e) ==
  /\ pc' = [pc EXCEPT ![c] = "error"]
  /\ error' = [error EXCEPT ![c] = e]
  /\ run' = [run EXCEPT ![c] = finished(run[c], <<>>)]

\* The scheduling code between the last read and the insert (lines 110-522)
\* has no await and touches only its own variables, so another client's steps
\* are taken before or after it, not in between
inSyncBlock(c) ==
  pc[c] \in {"seed", "lectureSelect", "lectureLoop", "labSelect", "labLoop",
             "tutorialSelect", "tutorialLoop"}

mayStep(c) == c \in active /\ \A d \in Clients \ {c} : ~ inSyncBlock(d)

Goto(c, label) ==
  /\ pc' = [pc EXCEPT ![c] = label]
  /\ UNCHANGED error

\* The Generate Timetable button, enabled while the mutation is not pending.
\* A client presses it once; a later run is another client's.
Generate(c, sectionId) ==
  /\ mayStep(c)
  /\ sectionId \in DOMAIN catalog.sections
  /\ pc[c] = "idle"
  /\ run' = [run EXCEPT ![c] = [NoRun EXCEPT !.sectionId = sectionId]]
  /\ startRows' = [startRows EXCEPT ![c] = {row \in timetable : row.section_id = sectionId}]
  /\ overlapped' = (overlapped \/ \E d \in active \ {c} : isPending(d))
  /\ Goto(c, "delete")
  /\ UNCHANGED <<catalog, timetable, nextId, active>>

\* A delete without its .eq filter
deleteEverySection(rows, sectionId) == {}

\* .delete().eq('section_id', sectionId): the rows that stay
deleteSection(rows, sectionId) == {row \in rows : row.section_id # sectionId}

\* The delete is awaited and its result is dropped: when it fails the rows
\* stay and mutationFn goes on
DeleteOld(c) ==
  /\ mayStep(c)
  /\ pc[c] = "delete"
  /\ \E ok \in BOOLEAN :
       timetable' = IF ok THEN deleteSection(timetable, run[c].sectionId) ELSE timetable
  /\ Goto(c, "readSection")
  /\ UNCHANGED <<catalog, nextId, active, run, startRows, overlapped>>

ReadSection(c) ==
  /\ mayStep(c)
  /\ pc[c] = "readSection"
  /\ \E ok \in BOOLEAN :
       IF ok
       THEN /\ run' = [run EXCEPT ![c].section = catalog.sections[run[c].sectionId]]
            /\ Goto(c, "readSubjects")
       ELSE Throw(c, "sectionError")
  /\ UNCHANGED <<catalog, timetable, nextId, active, startRows, overlapped>>

\* .from('subjects').select('*').eq('year_level', section.year_level)
subjectsOfYear(yearLevel) ==
  Filter(catalog.subjects, {su \in Range(catalog.subjects) : su.year_level = yearLevel})

ReadSubjects(c) ==
  /\ mayStep(c)
  /\ pc[c] = "readSubjects"
  /\ \E ok \in BOOLEAN :
       IF ok
       THEN /\ run' = [run EXCEPT ![c].subjects = subjectsOfYear(run[c].section.year_level)]
            /\ Goto(c, "readFacultySubjects")
       ELSE Throw(c, "subjectsError")
  /\ UNCHANGED <<catalog, timetable, nextId, active, startRows, overlapped>>

ReadFacultySubjects(c) ==
  /\ mayStep(c)
  /\ pc[c] = "readFacultySubjects"
  /\ \E ok \in BOOLEAN :
       IF ok
       THEN /\ run' = [run EXCEPT ![c].facultySubjects = catalog.faculty_subjects]
            /\ Goto(c, "readExisting")
       ELSE Throw(c, "fsError")
  /\ UNCHANGED <<catalog, timetable, nextId, active, startRows, overlapped>>

\* .from('timetable').select(...).neq('section_id', sectionId)
otherSections(rows, sectionId) == {row \in rows : row.section_id # sectionId}

ReadExisting(c) ==
  /\ mayStep(c)
  /\ pc[c] = "readExisting"
  /\ \E ok \in BOOLEAN :
       IF ok
       THEN /\ run' = [run EXCEPT ![c].existingTimetable =
                                     otherSections(timetable, run[c].sectionId)]
            /\ Goto(c, "readClassrooms")
       ELSE Throw(c, "existingError")
  /\ UNCHANGED <<catalog, timetable, nextId, active, startRows, overlapped>>

\* A classroom read without its .eq filter
classroomsOfAnyType(type) == catalog.classrooms

\* .from('classrooms').select('*').eq('room_type', type)
classroomsOfType(type) ==
  Filter(catalog.classrooms, {room \in Range(catalog.classrooms) : room.room_type = type})

\* The three classroom reads; an error of any of them is thrown after the third
ReadClassrooms(c) ==
  /\ mayStep(c)
  /\ pc[c] = "readClassrooms"
  /\ \E ok \in BOOLEAN :
       IF ok
       THEN /\ run' = [run EXCEPT ![c].lectureClassrooms = classroomsOfType("lecture"),
                                  ![c].labClassrooms = classroomsOfType("lab"),
                                  ![c].tutorialClassrooms = classroomsOfType("tutorial")]
            /\ Goto(c, "seed")
       ELSE Throw(c, "roomsError")
  /\ UNCHANGED <<catalog, timetable, nextId, active, startRows, overlapped>>

----------------------------------------------------------------------------
(* Lines 158-285: the grids, their seeding and the shuffled days *)

\* A seeding loop that marks nothing
seedCoversNever(entry, i) == FALSE

\* Whether the seeding loop of lines 178-203 marks slot i for an existing entry
seedCovers(entry, i) ==
  LET startIndex == getTimeIndex(substring5(entry.start_time))
      endIndex == getTimeIndex(substring5(entry.end_time))
      duration == endIndex - startIndex
  IN /\ startIndex # -1
     /\ endIndex # -1
     /\ startIndex <= i
     /\ i < startIndex + duration
     /\ i < Len(timeSlots)

seededFacultySchedule(existing) ==
  UNION {{<<e.day_of_week, i, e.faculty_id>> : i \in {j \in SlotIndices : seedCovers(e, j)}} :
           e \in existing}

seededClassroomSchedule(existing) ==
  UNION {{<<e.day_of_week, i, e.classroom_id>> : i \in {j \in SlotIndices : seedCovers(e, j)}} :
           e \in existing}

Seed(c) ==
  /\ mayStep(c)
  /\ pc[c] = "seed"
  /\ \E days \in DayShuffles :
       run' = [run EXCEPT
                 ![c].facultySchedule = seededFacultySchedule(run[c].existingTimetable),
                 ![c].classroomSchedule = seededClassroomSchedule(run[c].existingTimetable),
                 ![c].shuffledDays = days,
                 ![c].subjectIndex = 1]
  /\ Goto(c, "lectureSelect")
  /\ UNCHANGED <<catalog, timetable, nextId, active, startRows, overlapped>>

----------------------------------------------------------------------------
(* Step 1, lines 287-376: lectures *)

\* Lines 288-307 for the subject at subjectIndex; past the last subject the
\* run goes on to step 2
LectureSelect(c) ==
  LET r == run[c] IN
  /\ mayStep(c)
  /\ pc[c] = "lectureSelect"
  /\ IF r.subjectIndex > Len(r.subjects)
     THEN /\ run' = [run EXCEPT ![c].subjectIndex = 1]
          /\ Goto(c, "labSelect")
     ELSE LET subject == r.subjects[r.subjectIndex]
              qualifiedLectureFaculty == qualifiedFaculty(r, subject.id, "lecture")
          IN IF Len(qualifiedLectureFaculty) = 0
             THEN /\ run' = [run EXCEPT ![c].subjectIndex = @ + 1]
                  /\ Goto(c, "lectureSelect")
             ELSE /\ run' = [run EXCEPT
                               ![c].faculty =
                                   leastUsed(qualifiedLectureFaculty, r.facultyUsageCount).faculty_id,
                               ![c].hoursScheduled = 0,
                               ![c].availableDays = r.shuffledDays]
                  /\ Goto(c, "lectureLoop")
  /\ UNCHANGED <<catalog, timetable, nextId, active, startRows, overlapped>>

\* Step 1 without line 362: the lecture of the day is not recorded
recordLectureNot(dailySubjectLectures, day, subjectId) == dailySubjectLectures

\* dailySubjectLectures[day].add(subject.id), line 362
recordLecture(dailySubjectLectures, day, subjectId) ==
  [dailySubjectLectures EXCEPT ![day] = @ \cup {subjectId}]

\* One pass of the while loop of lines 309-375; times[i] is the start-time
\* order drawn for the i-th room tried.  subjectWeeklyHours is written and
\* never read, and is left out.
lectureIteration(r, times) ==
  LET subject == r.subjects[r.subjectIndex]
      weeklyHours == subject.weekly_hours
      dayIndex == r.hoursScheduled % Len(r.availableDays)
      day == r.availableDays[dayIndex + 1]
      dropDay == [r EXCEPT !.availableDays = Splice(@, dayIndex)]
      found == findRoom(r, r.lectureClassrooms, r.lectureRoomIndex, day, 1, r.faculty, times)
  IN IF subject.id \in r.dailySubjectLectures[day] THEN dropDay
     ELSE IF found.room = null THEN dropDay
     ELSE LET availableClassroom == r.lectureClassrooms[found.room + 1]
              entry == lectureEntry(r.sectionId, subject.id, r.faculty,
                                    availableClassroom.id, day, found.slot)
              marked == markSlotOccupied(r, day, found.slot, 1, r.faculty, availableClassroom.id)
              lectured == recordLecture(r.dailySubjectLectures, day, subject.id)
              rest == Splice(r.availableDays, dayIndex)
          IN [marked EXCEPT
                !.lectureRoomIndex = (found.room + 1) % Len(r.lectureClassrooms),
                !.timetableEntries = Append(@, entry),
                !.dailySubjectLectures = lectured,
                !.hoursScheduled = @ + 1,
                !.facultyUsageCount[r.faculty] = @ + 1,
                !.availableDays =
                    IF Len(rest) = 0 /\ r.hoursScheduled + 1 < weeklyHours
                    THEN Filter(r.shuffledDays, {d \in Days : subject.id \notin lectured[d]})
                    ELSE rest]

\* A while loop that makes one pass
lectureLoopOnce(r) == FALSE

\* The while condition without its test of hoursScheduled
lectureLoopWhileDays(r) == Len(r.availableDays) > 0

\* The while condition of line 309
lectureLoopGoesOn(r) ==
  /\ r.hoursScheduled < r.subjects[r.subjectIndex].weekly_hours
  /\ Len(r.availableDays) > 0

LectureStep(c) ==
  /\ mayStep(c)
  /\ pc[c] = "lectureLoop"
  /\ \E times \in [0..(Len(run[c].lectureClassrooms) - 1) -> getRandomStartTimes] :
       LET after == lectureIteration(run[c], times)
       IN IF lectureLoopGoesOn(after)
          THEN /\ run' = [run EXCEPT ![c] = after]
               /\ Goto(c, "lectureLoop")
          ELSE /\ run' = [run EXCEPT ![c] = [after EXCEPT !.subjectIndex = @ + 1,
                                                          !.hoursScheduled = 0,
                                                          !.availableDays = <<>>]]
               /\ Goto(c, "lectureSelect")
  /\ UNCHANGED <<catalog, timetable, nextId, active, startRows, overlapped>>

----------------------------------------------------------------------------
(* Step 2, lines 378-522: labs and tutorials, one entry per batch *)

roomsOfType(r, type) ==
  IF type = "lab" THEN r.labClassrooms ELSE r.tutorialClassrooms

roomIndexOfType(r, type) ==
  IF type = "lab" THEN r.labRoomIndex ELSE r.tutorialRoomIndex

\* Every session searched and marked as one slot
hoursOfTypeOne(type) == 1

\* hours of one session: labs take 2 slots, tutorials 1
hoursOfType(type) == IF type = "lab" THEN 2 ELSE 1

\* A batch loop that runs whenever a teacher is listed, whatever the flag
wantsBatchesWhenListed(r, type) ==
  Len(qualifiedFaculty(r, r.subjects[r.subjectIndex].id, type)) > 0

\* Lines 387-400 (labs) and 455-468 (tutorials): whether the batch loop runs
\* for the subject, and with which teacher
wantsBatches(r, type) ==
  LET subject == r.subjects[r.subjectIndex]
  IN /\ IF type = "lab" THEN subject.has_lab ELSE subject.has_tutorial
     /\ Len(qualifiedFaculty(r, subject.id, type)) > 0

enterBatches(r, type, shuffled) ==
  LET subject == r.subjects[r.subjectIndex]
  IN [r EXCEPT
        !.faculty = leastUsed(qualifiedFaculty(r, subject.id, type), r.facultyUsageCount).faculty_id,
        !.shuffledBatches = shuffled,
        !.batchIndex = 1,
        !.dayIndex = 1]

\* A teacher selected anew for every pass of the day loop
batchFacultyReselected(r, type) ==
  leastUsed(qualifiedFaculty(r, r.subjects[r.subjectIndex].id, type),
            r.facultyUsageCount).faculty_id

\* labFaculty / tutorialFaculty inside the batch and day loops: the constant
\* bound before them (lines 395, 463)
batchFaculty(r, type) == r.faculty

\* One pass of the day loop (lines 406-449, 475-518) for the batch at
\* batchIndex and the day at dayIndex; a batch that is scheduled, or that has
\* tried every day, gives way to the next batch
batchIteration(r, type, times) ==
  LET subject == r.subjects[r.subjectIndex]
      batch == r.shuffledBatches[r.batchIndex]
      day == r.shuffledDays[r.dayIndex]
      rooms == roomsOfType(r, type)
      teacher == batchFaculty(r, type)
      found == findRoom(r, rooms, roomIndexOfType(r, type), day, hoursOfType(type),
                        teacher, times)
      nextBatch(q) == [q EXCEPT !.batchIndex = @ + 1, !.dayIndex = 1]
  IN IF found.room = null
     THEN IF r.dayIndex < Len(r.shuffledDays)
          THEN [r EXCEPT !.dayIndex = @ + 1]
          ELSE nextBatch(r)
     ELSE LET availableClassroom == rooms[found.room + 1]
              entry == IF type = "lab"
                       THEN labEntry(r.sectionId, subject.id, teacher,
                                     availableClassroom.id, day, found.slot, batch)
                       ELSE tutorialEntry(r.sectionId, subject.id, teacher,
                                          availableClassroom.id, day, found.slot, batch)
              marked == markSlotOccupied(r, day, found.slot, hoursOfType(type),
                                         teacher, availableClassroom.id)
              cursor == (found.room + 1) % Len(rooms)
          IN nextBatch([marked EXCEPT
                          !.labRoomIndex = IF type = "lab" THEN cursor ELSE @,
                          !.tutorialRoomIndex = IF type = "tutorial" THEN cursor ELSE @,
                          !.timetableEntries = Append(@, entry),
                          !.facultyUsageCount[teacher] = @ + hoursOfType(type)])

leaveBatches(r) == [r EXCEPT !.shuffledBatches = <<>>, !.batchIndex = 0, !.dayIndex = 0]

\* End of the body of the for loop of line 385: the next subject, or past the
\* last one the insert
afterSubject(r) == IF r.subjectIndex < Len(r.subjects) THEN "labSelect" ELSE "insert"

\* Line 385-400 for the subject at subjectIndex; past the last subject the
\* scheduling is over and the insert is issued
LabSelect(c) ==
  LET r == run[c] IN
  /\ mayStep(c)
  /\ pc[c] = "labSelect"
  /\ IF r.subjectIndex > Len(r.subjects)
     THEN /\ UNCHANGED run
          /\ Goto(c, "insert")
     ELSE IF wantsBatches(r, "lab")
     THEN /\ \E shuffled \in BatchShuffles :
               run' = [run EXCEPT ![c] = enterBatches(r, "lab", shuffled)]
          /\ Goto(c, "labLoop")
     ELSE /\ UNCHANGED run
          /\ Goto(c, "tutorialSelect")
  /\ UNCHANGED <<catalog, timetable, nextId, active, startRows, overlapped>>

LabStep(c) ==
  /\ mayStep(c)
  /\ pc[c] = "labLoop"
  /\ \E times \in [0..(Len(run[c].labClassrooms) - 1) -> getRandomStartTimes] :
       LET after == batchIteration(run[c], "lab", times)
       IN IF after.batchIndex <= numberOfBatches
          THEN /\ run' = [run EXCEPT ![c] = after]
               /\ Goto(c, "labLoop")
          ELSE /\ run' = [run EXCEPT ![c] = leaveBatches(after)]
               /\ Goto(c, "tutorialSelect")
  /\ UNCHANGED <<catalog, timetable, nextId, active, startRows, overlapped>>

TutorialSelect(c) ==
  LET r == run[c] IN
  /\ mayStep(c)
  /\ pc[c] = "tutorialSelect"
  /\ IF wantsBatches(r, "tutorial")
     THEN /\ \E shuffled \in BatchShuffles :
               run' = [run EXCEPT ![c] = enterBatches(r, "tutorial", shuffled)]
          /\ Goto(c, "tutorialLoop")
     ELSE /\ run' = [run EXCEPT ![c].subjectIndex = @ + 1]
          /\ Goto(c, afterSubject(r))
  /\ UNCHANGED <<catalog, timetable, nextId, active, startRows, overlapped>>

TutorialStep(c) ==
  /\ mayStep(c)
  /\ pc[c] = "tutorialLoop"
  /\ \E times \in [0..(Len(run[c].tutorialClassrooms) - 1) -> getRandomStartTimes] :
       LET after == batchIteration(run[c], "tutorial", times)
       IN IF after.batchIndex <= numberOfBatches
          THEN /\ run' = [run EXCEPT ![c] = after]
               /\ Goto(c, "tutorialLoop")
          ELSE /\ run' = [run EXCEPT ![c] = [leaveBatches(after) EXCEPT !.subjectIndex = @ + 1]]
               /\ Goto(c, afterSubject(after))
  /\ UNCHANGED <<catalog, timetable, nextId, active, startRows, overlapped>>

----------------------------------------------------------------------------
(* Lines 524-548: the insert and the end of the mutation *)

\* The rows the table holds for the entries, ids from firstId on
insertedRows(entries, firstId) ==
  {[id |-> firstId + j - 1,
    section_id |-> entries[j].section_id, subject_id |-> entries[j].subject_id,
    faculty_id |-> entries[j].faculty_id, classroom_id |-> entries[j].classroom_id,
    day_of_week |-> entries[j].day_of_week,
    start_time |-> pgTime(entries[j].start_time), end_time |-> pgTime(entries[j].end_time),
    subject_type |-> entries[j].subject_type, batch_number |-> entries[j].batch_number] :
     j \in 1..Len(entries)}

\* An insert that is sent whatever the list
insertIsSentAlways(entries) == TRUE

\* if (timetableEntries.length > 0), line 525
insertIsSent(entries) == Len(entries) > 0

\* A failed insert that has stored the first entry of the list
failedInsertPartial(rows, entries, firstId) ==
  rows \cup insertedRows(SubSeq(entries, 1, 1), firstId)

\* The table after an insert that returned an error: the list is sent as one
\* INSERT statement, which stores every row or none
failedInsert(rows, entries, firstId) == rows

\* An empty list is not sent; a failed insert stores nothing and is thrown
InsertEntries(c) ==
  LET entries == run[c].timetableEntries IN
  /\ mayStep(c)
  /\ pc[c] = "insert"
  /\ IF ~ insertIsSent(entries)
     THEN /\ UNCHANGED <<timetable, nextId>>
          /\ run' = [run EXCEPT ![c] = finished(run[c], entries)]
          /\ Goto(c, "success")
     ELSE \E ok \in BOOLEAN :
            IF ok
            THEN /\ timetable' = timetable \cup insertedRows(entries, nextId)
                 /\ nextId' = nextId + Len(entries)
                 /\ run' = [run EXCEPT ![c] = finished(run[c], entries)]
                 /\ Goto(c, "success")
            ELSE /\ timetable' = failedInsert(timetable, entries, nextId)
                 /\ UNCHANGED nextId
                 /\ Throw(c, "insertError")
  /\ UNCHANGED <<catalog, active, startRows, overlapped>>

----------------------------------------------------------------------------

SectionIds == DOMAIN Sections

Next ==
  \/ \E c \in Clients, sectionId \in SectionIds : Generate(c, sectionId)
  \/ \E c \in Clients : DeleteOld(c)
  \/ \E c \in Clients : ReadSection(c)
  \/ \E c \in Clients : ReadSubjects(c)
  \/ \E c \in Clients : ReadFacultySubjects(c)
  \/ \E c \in Clients : ReadExisting(c)
  \/ \E c \in Clients : ReadClassrooms(c)
  \/ \E c \in Clients : Seed(c)
  \/ \E c \in Clients : LectureSelect(c)
  \/ \E c \in Clients : LectureStep(c)
  \/ \E c \in Clients : LabSelect(c)
  \/ \E c \in Clients : LabStep(c)
  \/ \E c \in Clients : TutorialSelect(c)
  \/ \E c \in Clients : TutorialStep(c)
  \/ \E c \in Clients : InsertEntries(c)

Spec == Init /\ [][Next]_vars

----------------------------------------------------------------------------
(* Vocabulary of the properties *)

\* Position of a time of day on the grid 08:00 .. 18:00, for "HH:MM" and for
\* "HH:MM:SS"
clockIndex(t) ==
  IF substring5(t) = "18:00" THEN Len(timeSlots) ELSE getTimeIndex(substring5(t))

\* Two entries on the same day whose [start, end) intervals overlap
Overlap(e1, e2) ==
  /\ e1.day_of_week = e2.day_of_week
  /\ clockIndex(e1.start_time) < clockIndex(e2.end_time)
  /\ clockIndex(e2.start_time) < clockIndex(e1.end_time)

FacultyConflict(rows) ==
  \E e1, e2 \in rows : e1.id # e2.id /\ e1.faculty_id = e2.faculty_id /\ Overlap(e1, e2)

RoomConflict(rows) ==
  \E e1, e2 \in rows : e1.id # e2.id /\ e1.classroom_id = e2.classroom_id /\ Overlap(e1, e2)

rowsOf(sectionId) == {row \in timetable : row.section_id = sectionId}

rowsNotOf(sectionId) == {row \in timetable : row.section_id # sectionId}

\* Client c's run is the only one started so far
alone(c) == \A d \in Clients \ {c} : pc[d] = "idle"

\* The entries client c's run has generated (and, once it is over, returned)
generated(c) == Range(run[c].timetableEntries)

ReadErrors == {"sectionError", "subjectsError", "fsError", "existingError", "roomsError"}

\* A stored row without its id, and the row an entry is stored as
content(row) ==
  [section_id |-> row.section_id, subject_id |-> row.subject_id,
   faculty_id |-> row.faculty_id, classroom_id |-> row.classroom_id,
   day_of_week |-> row.day_of_week, start_time |-> row.start_time,
   end_time |-> row.end_time, subject_type |-> row.subject_type,
   batch_number |-> row.batch_number]

stored(entry) ==
  [entry EXCEPT !.start_time = pgTime(@), !.end_time = pgTime(@)]

----------------------------------------------------------------------------
(* C1 - C10 *)

\* The run of client c completed successfully, no other run overlapping it:
\* it reports success and none of the target's old rows is left
completedSerially(c) ==
  /\ pc[c] = "success"
  /\ ~ overlapped
  /\ rowsOf(run[c].sectionId) \cap startRows[c] = {}

\* C1: after a run that was not overlapped by another run completes
\* successfully, with the other sections' rows free of conflicts, no two
\* distinct stored rows of any sections have the same faculty member on the
\* same day in overlapping [start, end) intervals.
C1_NoFacultyDoubleBooking ==
  \A c \in active :
    (completedSerially(c)
       /\ ~ FacultyConflict(rowsNotOf(run[c].sectionId))
       /\ ~ RoomConflict(rowsNotOf(run[c].sectionId)))
      => ~ FacultyConflict(timetable)

\* C2: after a run that was not overlapped by another run completes
\* successfully, with the other sections' rows free of conflicts, no two
\* distinct stored rows of any sections have the same classroom on the same
\* day in overlapping [start, end) intervals.
C2_NoRoomDoubleBooking ==
  \A c \in active :
    (completedSerially(c)
       /\ ~ FacultyConflict(rowsNotOf(run[c].sectionId))
       /\ ~ RoomConflict(rowsNotOf(run[c].sectionId)))
      => ~ RoomConflict(timetable)

\* C3: when a read of the only run so far fails, the stored rows of its
\* target section are the rows that were stored when the run started.
C3_FailedReadLeavesSection ==
  \A c \in active :
    (pc[c] = "error" /\ error[c] \in ReadErrors /\ alone(c))
      => rowsOf(run[c].sectionId) = startRows[c]

\* A run is under way from its first read until its insert has completed
underWay(c) == pc[c] \notin {"idle", "delete", "success", "error"}

\* C4: no two runs are under way at the same time.
C4_RunsSerialized ==
  \A c, d \in active : c # d => ~ (underWay(c) /\ underWay(d))

\* C5: when the only run so far reports success, the stored rows of its
\* target section are exactly the entries it returned, one row per entry.
C5_WholesaleReplacement ==
  \A c \in active :
    (pc[c] = "success" /\ alone(c))
      => /\ {content(row) : row \in rowsOf(run[c].sectionId)} = {stored(e) : e \in generated(c)}
         /\ Cardinality(rowsOf(run[c].sectionId)) = Len(run[c].timetableEntries)

\* C6: the stored rows of a section change only in a step of a run whose
\* target is that section; a run leaves the rows of every other section as
\* they are, whatever its outcome.
C6_OtherSectionsUntouched ==
  [][\A sectionId \in SectionIds :
       {row \in timetable : row.section_id = sectionId}
           # {row \in timetable' : row.section_id = sectionId}
         => \E c \in active : pc'[c] # pc[c] /\ run[c].sectionId = sectionId]_vars

\* A run for S2 that found rows of S1 and old rows of S2 has replaced the rows
\* of S2, and the row of S1 is as it was
C6_Witness ==
  \E c \in active :
    /\ pc[c] = "success"
    /\ run[c].sectionId = "S2"
    /\ startRows[c] # {}
    /\ generated(c) # {}
    /\ rowsOf("S2") \cap startRows[c] = {}
    /\ rowsOf("S1") = {row \in StoredLate : row.section_id = "S1"}

\* C7: no generated entry's interval [start, end) holds the break slot; in
\* particular no lab starts at index 3.
C7_BreakExclusion ==
  \A c \in active : \A e \in generated(c) :
    ~ (clockIndex(e.start_time) <= BREAK_START /\ BREAK_START < clockIndex(e.end_time))

\* Labs of one day on both sides of the break: 10:00-12:00 and 13:00-15:00
C7_Witness ==
  \E c \in active : \E e1, e2 \in generated(c) :
    /\ e1.subject_type = "lab" /\ e2.subject_type = "lab"
    /\ e1.day_of_week = e2.day_of_week
    /\ e1.start_time = "10:00" /\ e1.end_time = "12:00"
    /\ e2.start_time = "13:00" /\ e2.end_time = "15:00"

\* C8: every generated lab spans exactly 2 slots and every generated lecture
\* or tutorial exactly 1, the end after the start and the interval inside the
\* day 08:00-18:00, also when the end time is the fallback '18:00'.
C8_DurationLaw ==
  \A c \in active : \A e \in generated(c) :
    LET start == clockIndex(e.start_time)
        end == clockIndex(e.end_time)
    IN /\ 0 <= start /\ start < end /\ end <= Len(timeSlots)
       /\ end - start = (IF e.subject_type = "lab" THEN 2 ELSE 1)

\* A returned list with a lab 16:00-18:00, its end time the fallback, next to
\* a lecture and a tutorial
C8_Witness ==
  \E c \in active :
    /\ pc[c] = "success"
    /\ \E e \in generated(c) :
         e.subject_type = "lab" /\ e.start_time = "16:00" /\ e.end_time = "18:00"
    /\ \E e \in generated(c) : e.subject_type = "lecture"
    /\ \E e \in generated(c) : e.subject_type = "tutorial"

lecturesOn(c, subjectId, day) ==
  {j \in 1..Len(run[c].timetableEntries) :
     LET e == run[c].timetableEntries[j]
     IN e.subject_type = "lecture" /\ e.subject_id = subjectId /\ e.day_of_week = day}

\* C9: among the entries one run generates there is, for every subject and
\* weekday, at most one lecture.
C9_OneLecturePerDay ==
  \A c \in active : \A su \in Range(run[c].subjects) : \A day \in Days :
    Cardinality(lecturesOn(c, su.id, day)) <= 1

\* A subject wanting more than 5 weekly hours got its 5 lectures, one on each
\* weekday, and the refill of the day list found no day left
C9_Witness ==
  \E c \in active :
    /\ pc[c] = "insert"
    /\ \E su \in Range(run[c].subjects) :
         /\ su.weekly_hours > Len(daysOfWeek)
         /\ \A day \in Days : Cardinality(lecturesOn(c, su.id, day)) = 1

\* C10: every generated lecture has batch_number null, every generated lab or
\* tutorial a batch_number in 1..3.
C10_BatchTagging ==
  \A c \in active : \A e \in generated(c) :
    IF e.subject_type = "lecture" THEN e.batch_number = null
    ELSE e.batch_number \in 1..numberOfBatches

\* A returned list with a lecture, a lab and a tutorial in it
C10_Witness ==
  \E c \in active :
    /\ pc[c] = "success"
    /\ \A type \in AllTypes : \E e \in generated(c) : e.subject_type = type

----------------------------------------------------------------------------
(* C11 - C20 *)

\* room_type of the classroom with the given id
roomTypeOf(classroomId) ==
  (CHOOSE room \in Range(catalog.classrooms) : room.id = classroomId).room_type

\* C11: every generated entry is placed in a classroom of the catalog whose
\* room_type equals the entry's subject_type.
C11_RoomTypeMatch ==
  \A c \in active : \A e \in generated(c) :
    /\ \E room \in Range(catalog.classrooms) : room.id = e.classroom_id
    /\ roomTypeOf(e.classroom_id) = e.subject_type

\* A returned list that uses both lecture rooms and both lab rooms of a
\* catalog that has two rooms of every type
C11_Witness ==
  \E c \in active :
    /\ pc[c] = "success"
    /\ \A id \in {"L1", "L2", "B1", "B2"} : \E e \in generated(c) : e.classroom_id = id

\* The session types the catalog lists for a faculty member and a subject
listedTypes(facultyId, subjectId) ==
  UNION {fs.subject_types : fs \in {x \in Range(catalog.faculty_subjects) :
                                     x.faculty_id = facultyId /\ x.subject_id = subjectId}}

\* C12: the faculty member of every generated entry is listed in
\* faculty_subjects for the entry's subject with the entry's subject_type.
C12_CapabilityMatch ==
  \A c \in active : \A e \in generated(c) :
    e.subject_type \in listedTypes(e.faculty_id, e.subject_id)

\* A returned list for a subject whose only teacher is listed for labs alone:
\* it has that teacher's labs and no lecture or tutorial of the subject
C12_Witness ==
  \E c \in active :
    /\ pc[c] = "success"
    /\ catalog = CatalogGaps
    /\ \E e \in generated(c) :
         e.subject_id = "X" /\ e.subject_type = "lab" /\ e.faculty_id = "F2"
    /\ \A e \in generated(c) : e.subject_id = "X" => e.subject_type = "lab"

\* C13: two runs for the same section, one after the other has completed, the
\* catalog and the rows of the other sections the same for both, return the
\* same set of entries.  (mutationFn takes no seed: every run is given the
\* same one, none.)
C13_DeterministicRegeneration ==
  \A c, d \in active :
    (c # d /\ pc[c] = "success" /\ pc[d] = "success" /\ ~ overlapped
       /\ run[c].sectionId = run[d].sectionId)
      => generated(c) = generated(d)

\* The steps of mutationFn that await a read
ReadSteps == {"readSection", "readSubjects", "readFacultySubjects", "readExisting",
              "readClassrooms"}

\* C14: a run aborts only in a step that awaits a read, or in the insert of a
\* list that is not empty; no step of the scheduling code aborts it, and a run
\* that could schedule nothing reports success.
C14_SoftFailuresNeverAbort ==
  [][\A c \in active :
       (pc[c] # "error" /\ pc'[c] = "error")
         => \/ pc[c] \in ReadSteps
            \/ pc[c] = "insert" /\ Len(run[c].timetableEntries) > 0]_vars

\* A run for a section whose subject has a teacher and no classroom has
\* reported success with an empty list
C14_Witness ==
  \E c \in active :
    /\ pc[c] = "success"
    /\ catalog = CatalogBare
    /\ run[c].sectionId = "S2"
    /\ generated(c) = {}

\* C15: a run whose delete or insert returned an error does not report
\* success.  With no other run started, the delete of a run has returned an
\* error when rows that were stored for the target at the start are stored
\* after it.
C15_WriteErrorsAbort ==
  \A c \in active :
    (pc[c] = "success" /\ alone(c)) => startRows[c] \cap timetable = {}

\* C16: the insert of the only run so far, whose delete has removed the old
\* rows, either stores the whole list and the run reports success, or returns
\* an error, and then the run reports the failure and no row is stored for
\* the target section.
C16_FailedInsertLeavesEmpty ==
  [][\A c \in active :
       (pc[c] = "insert" /\ pc'[c] # "insert" /\ alone(c)
          /\ startRows[c] \cap timetable = {})
         => LET after == {row \in timetable' : row.section_id = run[c].sectionId}
            IN \/ /\ pc'[c] = "success"
                  /\ {content(row) : row \in after} = {stored(e) : e \in generated(c)}
               \/ /\ pc'[c] = "error"
                  /\ error'[c] = "insertError"
                  /\ after = {}]_vars

\* A run that found old rows of its target, deleted them and failed in its
\* insert: the section has no row
C16_Witness ==
  \E c \in active :
    /\ pc[c] = "error"
    /\ error[c] = "insertError"
    /\ alone(c)
    /\ startRows[c] # {}
    /\ rowsOf(run[c].sectionId) = {}

\* The subjects of a section (none before a target is chosen), and the
\* faculty_subjects rows that list a session type for a subject
subjectsOfSection(sectionId) ==
  IF sectionId \in DOMAIN catalog.sections
  THEN subjectsOfYear(catalog.sections[sectionId].year_level)
  ELSE <<>>

listedFor(subjectId, type) ==
  {j \in 1..Len(catalog.faculty_subjects) :
     /\ catalog.faculty_subjects[j].subject_id = subjectId
     /\ type \in catalog.faculty_subjects[j].subject_types}

roomsOfCatalog(type) ==
  {j \in 1..Len(catalog.classrooms) : catalog.classrooms[j].room_type = type}

\* Client c's run has reported success, no other run was started, and no row
\* was stored for any section when it started
succeededOnEmpty(c) ==
  /\ pc[c] = "success"
  /\ alone(c)
  /\ startRows[c] = {}
  /\ rowsNotOf(run[c].sectionId) = {}

\* The positions of the returned list that hold an entry of a subject and type
entriesOf(c, subjectId, type) ==
  {j \in 1..Len(run[c].timetableEntries) :
     /\ run[c].timetableEntries[j].subject_id = subjectId
     /\ run[c].timetableEntries[j].subject_type = type}

\* Number of slots from an entry's start to its end
slotsOf(e) == clockIndex(e.end_time) - clockIndex(e.start_time)

\* C17: when the target section's only subject has 1 <= weekly_hours <= 5,
\* no lab and no tutorial, exactly one faculty_subjects row lists it for
\* lectures, there is a lecture room and nothing is stored, the run returns
\* exactly weekly_hours entries, all lectures of the subject, on pairwise
\* distinct days, each with batch_number null and 1 slot long.
C17_ScenarioA ==
  \A c \in active :
    LET subjects == subjectsOfSection(run[c].sectionId)
        entries == run[c].timetableEntries
    IN (/\ succeededOnEmpty(c)
        /\ Len(subjects) = 1
        /\ subjects[1].weekly_hours \in 1..Len(daysOfWeek)
        /\ ~ subjects[1].has_lab /\ ~ subjects[1].has_tutorial
        /\ Cardinality(listedFor(subjects[1].id, "lecture")) = 1
        /\ roomsOfCatalog("lecture") # {})
         => /\ Len(entries) = subjects[1].weekly_hours
            /\ entriesOf(c, subjects[1].id, "lecture") = DOMAIN entries
            /\ \A i, j \in DOMAIN entries :
                 i # j => entries[i].day_of_week # entries[j].day_of_week
            /\ \A j \in DOMAIN entries :
                 entries[j].batch_number = null /\ slotsOf(entries[j]) = 1

\* Scenario A itself: 4 weekly hours and two lecture rooms, 4 lectures stored
\* and both rooms in use
C17_Witness ==
  \E c \in active :
    /\ succeededOnEmpty(c)
    /\ catalog = CatalogLectures(4, 2)
    /\ run[c].sectionId = "S2"
    /\ Cardinality(timetable) = 4
    /\ \A id \in {"L1", "L2"} : \E e \in generated(c) : e.classroom_id = id

\* An entry whose interval [start, end) holds the break slot
overBreak(e) == clockIndex(e.start_time) <= BREAK_START /\ BREAK_START < clockIndex(e.end_time)

\* C18: when a subject of the target section has has_lab, exactly one
\* faculty_subjects row lists it for labs, there is exactly one lab room and
\* nothing is stored, the run returns exactly 3 lab entries for the subject,
\* one for each of the batch numbers 1, 2 and 3, each 2 slots long and none
\* over the break slot.
C18_ScenarioB ==
  \A c \in active :
    LET subjects == subjectsOfSection(run[c].sectionId)
        entries == run[c].timetableEntries
    IN \A k \in DOMAIN subjects :
         (/\ succeededOnEmpty(c)
          /\ subjects[k].has_lab
          /\ Cardinality(listedFor(subjects[k].id, "lab")) = 1
          /\ Cardinality(roomsOfCatalog("lab")) = 1)
           => LET labs == entriesOf(c, subjects[k].id, "lab")
              IN /\ Cardinality(labs) = 3
                 /\ \A b \in 1..3 :
                      Cardinality({j \in labs : entries[j].batch_number = b}) = 1
                 /\ \A j \in labs : slotsOf(entries[j]) = 2 /\ ~ overBreak(entries[j])

\* The three labs of a subject, batch 3 scheduled before batch 1, with the
\* one lab teacher in the one lab room
C18_Witness ==
  \E c \in active :
    /\ succeededOnEmpty(c)
    /\ catalog = CatalogPractical
    /\ Cardinality(entriesOf(c, "X", "lab")) = 3
    /\ \E i, j \in entriesOf(c, "X", "lab") :
         /\ i < j
         /\ run[c].timetableEntries[i].batch_number = 3
         /\ run[c].timetableEntries[j].batch_number = 1

\* Stored row `row` covers slot i of its day
covers(row, i) == clockIndex(row.start_time) <= i /\ i < clockIndex(row.end_time)

\* The stored rows of a section have the faculty member in every slot of
\* every weekday but the break
bookedSolid(facultyId, sectionId) ==
  \A day \in Days : \A i \in SlotIndices \ {BREAK_START} :
    \E row \in rowsOf(sectionId) :
      row.faculty_id = facultyId /\ row.day_of_week = day /\ covers(row, i)

\* C19: when the one faculty member listed for the lectures of a subject of
\* the target section is booked by the stored rows of another section in
\* every slot of every weekday but the break, a successful run returns no
\* lecture of that subject and no entry of that faculty member that overlaps
\* one of those rows.
C19_ScenarioC ==
  \A c \in active :
    LET subjects == subjectsOfSection(run[c].sectionId)
    IN \A k \in DOMAIN subjects : \A other \in SectionIds \ {run[c].sectionId} :
         \A j \in listedFor(subjects[k].id, "lecture") :
           LET facultyId == catalog.faculty_subjects[j].faculty_id
           IN (/\ pc[c] = "success"
               /\ alone(c)
               /\ listedFor(subjects[k].id, "lecture") = {j}
               /\ bookedSolid(facultyId, other))
                => /\ entriesOf(c, subjects[k].id, "lecture") = {}
                   /\ \A e \in generated(c) : \A row \in rowsOf(other) :
                        ~ (e.faculty_id = facultyId /\ row.faculty_id = facultyId
                             /\ Overlap(e, row))

\* C20: from the seeding to the first entry of the only run so far, every
\* stored row of a section other than the target has its faculty member in
\* facultySchedule and its classroom in classroomSchedule at every slot it
\* covers, and every mark of the two grids comes from such a row.
C20_SeedingComplete ==
  \A c \in active :
    (inSyncBlock(c) /\ pc[c] # "seed" /\ alone(c) /\ Len(run[c].timetableEntries) = 0)
      => LET others == rowsNotOf(run[c].sectionId)
         IN /\ \A row \in others : \A i \in SlotIndices :
                 covers(row, i)
                   => /\ <<row.day_of_week, i, row.faculty_id>> \in run[c].facultySchedule
                      /\ <<row.day_of_week, i, row.classroom_id>> \in run[c].classroomSchedule
            /\ \A m \in run[c].facultySchedule :
                 \E row \in others :
                   row.day_of_week = m[1] /\ covers(row, m[2]) /\ row.faculty_id = m[3]
            /\ \A m \in run[c].classroomSchedule :
                 \E row \in others :
                   row.day_of_week = m[1] /\ covers(row, m[2]) /\ row.classroom_id = m[3]

----------------------------------------------------------------------------
(* C21 - C30 *)

\* The loops that call findBestTimeSlot, with the duration and the room
\* list they call it with
inSearchLoop(c) == pc[c] \in {"lectureLoop", "labLoop", "tutorialLoop"}

searchDuration(c) == IF pc[c] = "labLoop" THEN 2 ELSE 1

searchRooms(c) ==
  IF pc[c] = "lectureLoop" THEN run[c].lectureClassrooms
  ELSE IF pc[c] = "labLoop" THEN run[c].labClassrooms
  ELSE run[c].tutorialClassrooms

\* A session of `duration` slots from start index s lies within the day, off
\* the break, with the section, the faculty member and the room free in the
\* grids of r at every slot of it
feasibleAt(r, day, duration, facultyId, classroomId, s) ==
  /\ s \in SlotIndices
  /\ s + duration <= Len(timeSlots)
  /\ \A i \in s..(s + duration - 1) :
       /\ i # BREAK_START
       /\ <<day, i>> \notin r.schedule
       /\ <<day, i, facultyId>> \notin r.facultySchedule
       /\ <<day, i, classroomId>> \notin r.classroomSchedule

\* C21: in every state of a loop that searches, for every day, every room of
\* the loop's list and every order of the start times, findBestTimeSlot
\* called for the loop's duration and faculty member gives a start index at
\* which the session is feasible when there is one, and null when there is
\* none.
C21_SlotSearchSoundComplete ==
  \A c \in active :
    inSearchLoop(c) =>
      \A day \in Days : \A room \in Range(searchRooms(c)) :
        \A timesToTry \in getRandomStartTimes :
          LET found == findBestTimeSlot(run[c], day, searchDuration(c), run[c].faculty,
                                        room.id, timesToTry)
              feasible == {s \in SlotIndices :
                             feasibleAt(run[c], day, searchDuration(c), run[c].faculty,
                                        room.id, s)}
          IN IF feasible = {} THEN found = null ELSE found \in feasible

\* A search for a tutorial on a day of which the section has every slot but
\* the last one taken: the last slot of the day is the single answer
C21_Witness ==
  \E c \in active : \E day \in Days :
    /\ pc[c] = "tutorialLoop"
    /\ \A i \in SlotIndices \ {BREAK_START, 9} : <<day, i>> \in run[c].schedule
    /\ \E room \in Range(run[c].tutorialClassrooms) :
         {s \in SlotIndices : feasibleAt(run[c], day, 1, run[c].faculty, room.id, s)} = {9}

\* C22: for every subject of the target section, the lecture entries of one
\* run are at most weekly_hours and at most 5, the number of weekdays.
C22_LecturesNotOverScheduled ==
  \A c \in active :
    LET subjects == subjectsOfSection(run[c].sectionId)
    IN \A k \in DOMAIN subjects :
         LET lectures == Cardinality(entriesOf(c, subjects[k].id, "lecture"))
         IN lectures <= subjects[k].weekly_hours /\ lectures <= Len(daysOfWeek)

\* A returned list with exactly 5 lectures of a subject of more than 5
\* weekly hours
C22_Witness ==
  \E c \in active : \E k \in DOMAIN subjectsOfSection(run[c].sectionId) :
    LET subject == subjectsOfSection(run[c].sectionId)[k]
    IN /\ pc[c] = "success"
       /\ subject.weekly_hours > Len(daysOfWeek)
       /\ Cardinality(entriesOf(c, subject.id, "lecture")) = Len(daysOfWeek)

\* Step 1 has just finished the subject at subjectIndex - 1, for which it had
\* selected the faculty member run[c].faculty
lecturesDone(c) ==
  /\ pc[c] = "lectureSelect"
  /\ run[c].subjectIndex > 1
  /\ Len(qualifiedFaculty(run[c], run[c].subjects[run[c].subjectIndex - 1].id, "lecture")) > 0

\* Whether a lecture of faculty member run[c].faculty fits on the day in some
\* lecture room, in the grids as they are
dayFeasible(c, day) ==
  \E room \in Range(run[c].lectureClassrooms) : \E s \in SlotIndices :
    feasibleAt(run[c], day, 1, run[c].faculty, room.id, s)

\* C23: when step 1 has finished a subject for which it had selected a
\* faculty member, with fewer lectures than weekly_hours, no lecture of that
\* faculty member fits on any weekday on which the subject has no lecture.
C23_UnderCoverageOnlyIfInfeasible ==
  \A c \in active :
    lecturesDone(c) =>
      LET subject == run[c].subjects[run[c].subjectIndex - 1]
      IN Cardinality(entriesOf(c, subject.id, "lecture")) < subject.weekly_hours
           => \A day \in Days :
                lecturesOn(c, subject.id, day) = {} => ~ dayFeasible(c, day)

\* A subject of 5 weekly hours ends with 3 lectures: its lecturer is booked
\* by another section and the section's other subject has the last slot of
\* two days; those two days were tried, dropped, refilled and dropped again
C23_Witness ==
  \E c \in active :
    /\ lecturesDone(c)
    /\ catalog = CatalogCrowded
    /\ run[c].subjects[run[c].subjectIndex - 1].id = "Y"
    /\ Cardinality(entriesOf(c, "Y", "lecture")) = 3
    /\ Cardinality(entriesOf(c, "X", "lecture")) = 2

\* Hours of the entries generated so far that faculty member f teaches: 1 for
\* a lecture or tutorial, 2 for a lab
hoursCommitted(c, f) ==
  LET entries == run[c].timetableEntries
      mine == {j \in DOMAIN entries : entries[j].faculty_id = f}
  IN Cardinality(mine) + Cardinality({j \in mine : entries[j].subject_type = "lab"})

\* The session type a loop schedules
typeOfLoop(label) ==
  IF label = "lectureLoop" THEN "lecture" ELSE IF label = "labLoop" THEN "lab" ELSE "tutorial"

\* C24: throughout the scheduling code facultyUsageCount is, for every
\* faculty member, the hours of the entries generated so far for them; and in
\* every step that selects a faculty member for a subject and session type,
\* the selected one is listed for them in faculty_subjects, no listed one has
\* a smaller count, and every listed one in an earlier row has a larger count.
C24_LeastLoadedSelection ==
  [][\A c \in active :
       /\ inSyncBlock(c) =>
            \A f \in Faculty : run[c].facultyUsageCount[f] = hoursCommitted(c, f)
       /\ (pc[c] \in {"lectureSelect", "labSelect", "tutorialSelect"}
             /\ pc'[c] \in {"lectureLoop", "labLoop", "tutorialLoop"})
            => LET subject == run[c].subjects[run[c].subjectIndex]
                   rows == catalog.faculty_subjects
                   listed == listedFor(subject.id, typeOfLoop(pc'[c]))
                   usage == run[c].facultyUsageCount
               IN \E j \in listed :
                    /\ rows[j].faculty_id = run'[c].faculty
                    /\ \A i \in listed :
                         /\ usage[rows[i].faculty_id] >= usage[rows[j].faculty_id]
                         /\ i < j => usage[rows[i].faculty_id] > usage[rows[j].faculty_id]]_vars

\* Two teachers listed for everything: the first subject's lecturer was the
\* earlier row of a tie, the second subject's lecturer is the later row,
\* selected for its smaller count
C24_Witness ==
  \E c \in active :
    /\ pc[c] = "lectureLoop"
    /\ catalog = CatalogShared
    /\ run[c].subjects[run[c].subjectIndex].id = "Y"
    /\ run[c].faculty = "F2"
    /\ run[c].facultyUsageCount = [f \in Faculty |-> IF f = "F1" THEN 1 ELSE 0]
    /\ \E e \in generated(c) : e.subject_id = "X" /\ e.faculty_id = "F1"

\* C25: within one run, all entries of a subject and session type have the
\* same faculty member.
C25_OneInstructorPerSubjectType ==
  \A c \in active : \A e1, e2 \in generated(c) :
    (e1.subject_id = e2.subject_id /\ e1.subject_type = e2.subject_type)
      => e1.faculty_id = e2.faculty_id

\* The three labs of a subject are all with the teacher selected before the
\* first, whose hours have grown to 7 while the other listed teacher has 1
C25_Witness ==
  \E c \in active :
    /\ pc[c] = "success"
    /\ catalog = CatalogShared
    /\ Cardinality(entriesOf(c, "X", "lab")) = 3
    /\ \A j \in entriesOf(c, "X", "lab") : run[c].timetableEntries[j].faculty_id = "F1"
    /\ hoursCommitted(c, "F1") = 7
    /\ hoursCommitted(c, "F2") = 1

\* The room list and the cursor of a session type in the run record r
roomListOf(r, type) ==
  IF type = "lecture" THEN r.lectureClassrooms
  ELSE IF type = "lab" THEN r.labClassrooms ELSE r.tutorialClassrooms

cursorOf(r, type) ==
  IF type = "lecture" THEN r.lectureRoomIndex
  ELSE IF type = "lab" THEN r.labRoomIndex ELSE r.tutorialRoomIndex

\* Whether the session of entry e has a feasible start in the room at
\* 0-based position q of the list, in the grids of r
roomFeasible(r, rooms, q, e) ==
  \E s \in SlotIndices :
    feasibleAt(r, e.day_of_week, IF e.subject_type = "lab" THEN 2 ELSE 1,
               e.faculty_id, rooms[q + 1].id, s)

\* C26: a step of the scheduling code that commits an entry has taken the
\* first room, in cyclic order from the cursor of the entry's session type,
\* that had a feasible slot, and leaves that cursor at (position of the room
\* + 1) mod (number of rooms of the type) and the other two cursors as they
\* were; a step that commits nothing leaves the three cursors as they were.
C26_RoundRobinRooms ==
  [][\A c \in active :
       (inSyncBlock(c) /\ (pc'[c] # pc[c] \/ run'[c] # run[c]))
         => IF Len(run'[c].timetableEntries) = Len(run[c].timetableEntries)
            THEN \A type \in AllTypes : cursorOf(run'[c], type) = cursorOf(run[c], type)
            ELSE LET e == run'[c].timetableEntries[Len(run'[c].timetableEntries)]
                     rooms == roomListOf(run[c], e.subject_type)
                     n == Len(rooms)
                     cursor == cursorOf(run[c], e.subject_type)
                 IN /\ \E i \in 0..(n - 1) :
                         LET p == (cursor + i) % n
                         IN /\ rooms[p + 1].id = e.classroom_id
                            /\ roomFeasible(run[c], rooms, p, e)
                            /\ \A k \in 0..(i - 1) :
                                 ~ roomFeasible(run[c], rooms, (cursor + k) % n, e)
                            /\ cursorOf(run'[c], e.subject_type) = (p + 1) % n
                    /\ \A type \in AllTypes \ {e.subject_type} :
                         cursorOf(run'[c], type) = cursorOf(run[c], type)]_vars

\* Three lectures in two lecture rooms: the first room, the second, and the
\* first again
C26_Witness ==
  \E c \in active :
    /\ inSyncBlock(c)
    /\ Len(run[c].timetableEntries) = 3
    /\ run[c].timetableEntries[1].classroom_id = "L1"
    /\ run[c].timetableEntries[2].classroom_id = "L2"
    /\ run[c].timetableEntries[3].classroom_id = "L1"
    /\ run[c].lectureRoomIndex = 1

\* has_lab or has_tutorial of a subject
flagOf(subject, type) == IF type = "lab" THEN subject.has_lab ELSE subject.has_tutorial

\* C27: for every subject of the target section and each of the types lab
\* and tutorial, one run generates at most one entry per batch number and at
\* most 3 in all, and none when the subject's flag for the type is false or
\* no faculty_subjects row lists the type for the subject; and a run on an
\* empty timetable generates entries of the type for a subject that has the
\* flag, a listed teacher and a room of the type, also when no row lists the
\* subject for lectures.
C27_PerBatchPracticals ==
  \A c \in active :
    LET subjects == subjectsOfSection(run[c].sectionId)
        entries == run[c].timetableEntries
    IN \A k \in DOMAIN subjects : \A type \in {"lab", "tutorial"} :
         LET mine == entriesOf(c, subjects[k].id, type)
             wanted == flagOf(subjects[k], type) /\ listedFor(subjects[k].id, type) # {}
         IN /\ \A b \in 1..numberOfBatches :
                 Cardinality({j \in mine : entries[j].batch_number = b}) <= 1
            /\ Cardinality(mine) <= numberOfBatches
            /\ ~ wanted => mine = {}
            /\ (succeededOnEmpty(c) /\ wanted /\ roomsOfCatalog(type) # {}
                  /\ listedFor(subjects[k].id, "lecture") = {})
                 => mine # {}

\* A returned list for two subjects without a lecturer: the three labs of
\* the one that has a lab teacher, no tutorial of it for want of a teacher,
\* and no tutorial of the other for want of a room
C27_Witness ==
  \E c \in active :
    /\ succeededOnEmpty(c)
    /\ catalog = CatalogGaps
    /\ Cardinality(entriesOf(c, "X", "lab")) = 3
    /\ entriesOf(c, "X", "lab") = DOMAIN run[c].timetableEntries

\* Two stored rows of different sections that have the same faculty member or
\* the same classroom in overlapping intervals of one day
clash(row1, row2) ==
  /\ row1.section_id # row2.section_id
  /\ row1.faculty_id = row2.faculty_id \/ row1.classroom_id = row2.classroom_id
  /\ Overlap(row1, row2)

\* C28: a faculty member or classroom is stored for two sections in
\* overlapping intervals only when runs have overlapped, or when the older of
\* the two rows ends at 18:00 (the rows that seeding passes over); the
\* witness is the state the claim says is reachable.
C28_DoubleBookingOnlyByRace ==
  \A row1, row2 \in timetable :
    (clash(row1, row2) /\ row1.id < row2.id)
      => overlapped \/ row1.end_time = "18:00:00"

\* Two runs for different sections, each of which read the stored entries
\* before the other inserted, have both reported success and have stored the
\* same faculty member and the same classroom on the same day at 08:00
C28_Witness ==
  /\ overlapped
  /\ \A c \in Clients : pc[c] = "success"
  /\ \E row1 \in rowsOf("S1") : \E row2 \in rowsOf("S2") :
       /\ row1.faculty_id = row2.faculty_id
       /\ row1.classroom_id = row2.classroom_id
       /\ row1.day_of_week = row2.day_of_week
       /\ row1.start_time = "08:00:00" /\ row2.start_time = "08:00:00"

RECURSIVE slotHours(_)
\* Sum of the lengths, in slots, of the entries of a list
slotHours(entries) ==
  IF entries = <<>> THEN 0 ELSE slotsOf(Head(entries)) + slotHours(Tail(entries))

\* C29: no two entries of the list one run generates overlap on the same
\* day, whatever their subjects, types, teachers, rooms and batches, and the
\* slots of the list add up to at most 45, 5 days of 9 slots.
C29_SectionExclusivity ==
  \A c \in active :
    LET entries == run[c].timetableEntries
    IN /\ \A i, j \in DOMAIN entries : i # j => ~ Overlap(entries[i], entries[j])
       /\ slotHours(entries) <= Len(daysOfWeek) * (Len(timeSlots) - 1)

\* A returned list with a lecture, three labs and three tutorials, 10 slots
\* in all, the labs of two batches on the same day one after the other
C29_Witness ==
  \E c \in active :
    /\ pc[c] = "success"
    /\ slotHours(run[c].timetableEntries) = 10
    /\ \E e1, e2 \in generated(c) :
         /\ e1.subject_type = "lab" /\ e2.subject_type = "lab"
         /\ e1.batch_number # e2.batch_number
         /\ e1.day_of_week = e2.day_of_week
         /\ e1.end_time = e2.start_time

\* Rank of the while loop of step 1: the days left without a lecture of the
\* subject weigh more than the days left in availableDays, so that a commit
\* lowers the rank even when it refills the list
lectureRank(r) ==
  LET subject == r.subjects[r.subjectIndex]
      lectured == {d \in Days : subject.id \in r.dailySubjectLectures[d]}
  IN (Len(daysOfWeek) - Cardinality(lectured)) * (Len(daysOfWeek) + 1) + Len(r.availableDays)

\* Rank of the batch and day loops of step 2: the batches and days to go
batchRank(r) ==
  (numberOfBatches - r.batchIndex) * Len(daysOfWeek) + (Len(daysOfWeek) - r.dayIndex) + 1

\* Rank of a position in the scheduling code: step 1 above step 2, in each
\* step the subjects to go, and for a subject the selection above its loop.
\* lectureRank is at most 35 and batchRank at most 15.
rankOf(label, r) ==
  LET toGo == Len(r.subjects) + 1 - r.subjectIndex
      step2 == (Len(r.subjects) + 1) * 41
  IN CASE label = "seed" -> step2 + (toGo + 1) * 40
       [] label = "lectureSelect" -> step2 + toGo * 40 + 39
       [] label = "lectureLoop" -> step2 + toGo * 40 + lectureRank(r)
       [] label = "labSelect" -> toGo * 41 + 40
       [] label = "labLoop" -> toGo * 41 + 20 + batchRank(r)
       [] label = "tutorialSelect" -> toGo * 41 + 19
       [] label = "tutorialLoop" -> toGo * 41 + batchRank(r)
       [] OTHER -> 0

\* Every pass a loop can make from here changes the state of the run
progresses(c) ==
  /\ pc[c] = "lectureLoop" =>
       \A times \in [0..(Len(run[c].lectureClassrooms) - 1) -> getRandomStartTimes] :
         lectureIteration(run[c], times) # run[c]
  /\ pc[c] = "labLoop" =>
       \A times \in [0..(Len(run[c].labClassrooms) - 1) -> getRandomStartTimes] :
         batchIteration(run[c], "lab", times) # run[c]
  /\ pc[c] = "tutorialLoop" =>
       \A times \in [0..(Len(run[c].tutorialClassrooms) - 1) -> getRandomStartTimes] :
         batchIteration(run[c], "tutorial", times) # run[c]

\* C30: the scheduling code of a run terminates: every pass of a loop changes
\* the state of the run, and every step of the scheduling code lowers a rank
\* that is a natural number and is 0 at the insert, for every explored
\* outcome of the random choices.
C30_Termination ==
  /\ [](\A c \in active : progresses(c))
  /\ [][\A c \in active :
          (inSyncBlock(c) /\ (pc'[c] # pc[c] \/ run'[c] # run[c]))
            => /\ rankOf(pc'[c], run'[c]) < rankOf(pc[c], run[c])
               /\ rankOf(pc'[c], run'[c]) >= 0
               /\ pc'[c] = "insert" \/ inSyncBlock(c)']_vars

\* A run stands at its insert after step 1 dropped two days for a subject,
\* refilled the list of days with them and dropped them again
C30_Witness ==
  \E c \in active :
    /\ pc[c] = "insert"
    /\ catalog = CatalogCrowded
    /\ Cardinality(entriesOf(c, "Y", "lecture")) = 3
    /\ Cardinality(entriesOf(c, "X", "lecture")) = 2

====
